---- MODULE Spec2Model ----
(***************************************************************************)
(* ext4-rs: the extent-list stream reader (extents.rs TreeReader: read,    *)
(* seek, find_part) and the extent tree loader (load_extent_tree,          *)
(* add_found_extents).                                                     *)
(*                                                                         *)
(* Spec      the reader: any interleaving of read and seek calls, with     *)
(*           image-read and decrypt failures and the panics of seek.       *)
(* SpecStream  seek(Start(p)) on a fresh reader, then read_to_end.         *)
(* SpecLoad  the loader as a pure function of the inode payload, the       *)
(*           blocks on disc, the checksum seed and the build feature.      *)
(* SpecSuper SuperBlock::load (lib.rs) on a superblock and its group       *)
(*           table, then load_inode calls on the loaded superblock.        *)
(* SpecDir   the record loop of SuperBlock::read_directory (lib.rs).       *)
(* SpecLoadAll  SuperBlock::load_all (lib.rs): reader_for, then            *)
(*           read_to_end on lib.rs's own TreeReader.                       *)
(***************************************************************************)
EXTENDS Integers, Sequences, FiniteSets, TLC

VARIABLES
    \* ---- TreeReader fields (extents.rs:23-32) and the image behind inner
    image,               \* the bytes of the raw image, by absolute address
    extents,             \* Vec<Extent>, as load_extent_tree returned it
    len,                 \* total file size in bytes
    block_size,
    encryption_context,  \* TRUE: Some(context), FALSE: None
    ino,
    pos,                 \* the cursor
    \* ---- what the caller observes
    panicked,            \* a seek assertion failed; the call never returned
    last,                \* the last call: its input, result, buffer, I/O
    from,                \* cursor after the last seek (0 after create)
    out,                 \* bytes delivered by the successful reads since
    \* ---- loader (SpecLoad)
    tree,                \* [core, disc, checksum_prefix, verify_checksums]
    loaded,              \* result of load_extent_tree, or Pending
    \* ---- superblock and inode table (SpecSuper)
    disk,                \* [sb, gdt]: superblock fields and group table words
    super,               \* result of SuperBlock::load, or SuperPending
    inode_call,          \* the last load_inode call and how it ended
    \* ---- lib.rs: read_directory (SpecDir) and load_all (SpecLoadAll)
    dir,                 \* the record loop of read_directory
    old                  \* load_all: lib.rs's TreeReader and read_to_end

vars == <<image, extents, len, block_size, encryption_context, ino, pos,
          panicked, last, from, out, tree, loaded, disk, super, inode_call,
          dir, old>>

readerVars == <<image, extents, len, block_size, encryption_context, ino, pos,
                panicked, last, from, out>>

loaderVars == <<tree, loaded>>

superVars == <<disk, super, inode_call>>

libVars == <<dir, old>>

(***************************************************************************)
(* Bounds                                                                  *)
(***************************************************************************)
MaxSize == 5        \* file sizes 0..MaxSize
MaxBuf == 3         \* caller buffer lengths 0..MaxBuf
MaxPart == 2        \* logical block of an extent 0..MaxPart
ImageLen == 14      \* bytes in the raw image

BlockSizes == {2, 3}
ExtentLens == {0, 1, 2}     \* ee_len, zero-length entries included
Starts == {1, 3}            \* physical start blocks
ExtentCounts == {0, 1, 2}   \* entries in the extent list

\* std::u32::MAX and 2^64 lie beyond TLC's integers. The model gives u32 and
\* u64 these smaller ranges; every size, address and buffer length of the
\* model lies far below both.
U32_MAX == 65535
U64_MODULUS == 1048576

Min(a, b) == IF a <= b THEN a ELSE b

(***************************************************************************)
(* The raw image: byte i holds i, as in tests::simple_tree.                *)
(***************************************************************************)
ImageByte(a) == a % 256

(***************************************************************************)
(* find_part                                                               *)
(***************************************************************************)
\* faulty variant: the block after the extent's last counts as inside
inside_inclusive(part, extent) ==
    part >= extent.part /\ part <= extent.part + extent.len

\* "we're inside it"
inside(part, extent) ==
    part >= extent.part /\ part < extent.part + extent.len

RECURSIVE find_part_from(_, _, _)
find_part_from(part, exts, i) ==
    IF i > Len(exts) THEN [kind |-> "Sparse", max |-> U32_MAX]
    ELSE LET extent == exts[i] IN
         IF part < extent.part
            THEN [kind |-> "Sparse", max |-> extent.part - part]
         ELSE IF inside(part, extent)
            THEN [kind |-> "Actual", extent |-> extent]
         ELSE find_part_from(part, exts, i + 1)

find_part(part, exts) == find_part_from(part, exts, 1)

(***************************************************************************)
(* The image accessor and the content-decryption hook.  A page is a        *)
(* sequence of block_size bytes, each remembered with the image address it *)
(* was read from.                                                          *)
(***************************************************************************)
\* InnerReader::read_at / read_at_without_decrypt: exactly block_size bytes
\* at page_addr, or an error when the image ends before them.
read_at_ok(page_addr) == page_addr + block_size <= ImageLen

read_at(page_addr) ==
    [i \in 1..block_size |->
        [val |-> image[page_addr + i - 1], addr |-> page_addr + i - 1]]

\* Crypto::decrypt_page(context, page, page_offset, page_addr, ino): the
\* user's hook, here one that adds the low byte of the physical address.
decrypt_page(page, page_offset, page_addr, inode) ==
    [i \in 1..Len(page) |->
        [val |-> (page[i].val + page_addr) % 256, addr |-> page[i].addr]]

\* io::Cursor<&mut [u8]>::write: copies as much of data as still fits.
cursor_write(output, output_len, data) ==
    output \o SubSeq(data, 1, Min(Len(data), output_len - Len(output)))

NoFault == [kind |-> "none", at |-> 0]

(***************************************************************************)
(* TreeReader::read, Actual branch: the page loop.                         *)
(* st = [output, reads, decrypts]: the bytes written to the caller's       *)
(* buffer so far, the pages read from the image and the decrypt_page calls *)
(* made so far in this call.  fault names the image read or the decrypt    *)
(* call of this read call that fails, if any.                              *)
(***************************************************************************)
\* faulty variant: the extent's logical start is not subtracted
page_addr_unrebased(extent, block_index) ==
    (extent.start + block_index) * block_size

page_addr_of(extent, block_index) ==
    (extent.start + (block_index - extent.part)) * block_size

\* faulty variant: the block index is handed over unscaled
page_offset_unscaled(block_index) == block_index

\* (block_index as u64) * block_size
page_offset_of(block_index) == block_index * block_size

\* faulty variant: the cursor keeps what the loop wrote before the failure
pos_after_partial(p, written) == p + written

\* `?` on a failed image read or decrypt_page: the call returns before
\* self.pos += read, whatever the loop has written to the buffer.
pos_after_error(p, written) == p

RECURSIVE page_loop(_, _, _, _, _, _)
page_loop(extent, block_index, offset_in_page, output_len, st, fault) ==
    LET max_block_index == extent.part + extent.len IN
    IF ~(block_index < max_block_index)
    THEN [err |-> "none", st |-> st]
    ELSE
      LET page_addr == page_addr_of(extent, block_index)
          nth == Len(st.reads) + 1
          st1 == [st EXCEPT !.reads = Append(@, page_addr)]
      IN
      IF ~read_at_ok(page_addr) \/ (fault.kind = "io" /\ fault.at = nth)
      THEN [err |-> "Io", st |-> st1]
      ELSE
        LET raw == read_at(page_addr)
            page_offset == page_offset_of(block_index)
            st2 == IF encryption_context
                   THEN [st1 EXCEPT !.decrypts = Append(@,
                            [size |-> Len(raw), page_offset |-> page_offset,
                             page_addr |-> page_addr, ino |-> ino,
                             copied |-> Len(st.output)])]
                   ELSE st1
        IN
        IF encryption_context /\ fault.kind = "decrypt" /\ fault.at = nth
        THEN [err |-> "DecryptFailed", st |-> st2]
        ELSE
          LET page == IF encryption_context
                      THEN decrypt_page(raw, page_offset, page_addr, ino)
                      ELSE raw
              st3 == [st2 EXCEPT !.output =
                        cursor_write(@, output_len,
                            SubSeq(page, offset_in_page + 1, Len(page)))]
          IN
          IF Len(st3.output) = output_len
          THEN [err |-> "none", st |-> st3]
          ELSE page_loop(extent, block_index + 1, 0, output_len, st3, fault)

\* faulty variant: the output is not capped at the file size
actual_output_len_uncapped(p, buf_len) == buf_len

\* min(self.len - self.pos, buf.len())
actual_output_len(p, buf_len) == Min(len - p, buf_len)

\* faulty variant: self.pos = read
actual_advance_assign(p, read) == read

\* self.pos += read in the Actual branch
actual_advance(p, read) == p + read

\* faulty variant: the count is not capped at the file size
sparse_len_uncapped(max, buf_len, p) == Min(max * block_size, buf_len)

\* the Sparse branch's byte count
sparse_len(max, buf_len, p) ==
    LET max_bytes == max * block_size
        read == Min(max_bytes, buf_len)
    IN Min(read, len - p)

ZeroByte == [val |-> 0, addr |-> -1]

\* faulty variant: the buffer keeps what the caller left in it
zero_skipped(n) == [i \in 1..n |-> [val |-> 255, addr |-> -1]]

\* zero(&mut buf[0..read])
zero(n) == [i \in 1..n |-> ZeroByte]

(***************************************************************************)
(* TreeReader::read as a function of the cursor, the buffer length and the *)
(* fault: [result, err, n, pos, buf, reads, decrypts].                     *)
(***************************************************************************)
read_result(p, buf_len, fault) ==
    LET none == [output |-> <<>>, reads |-> <<>>, decrypts |-> <<>>]
        ret(result, err, n, np, st) ==
            [result |-> result, err |-> err, n |-> n, pos |-> np,
             buf |-> st.output, reads |-> st.reads, decrypts |-> st.decrypts]
    IN
    IF buf_len = 0 THEN ret("Ok", "none", 0, p, none)
    ELSE
      LET block_index == p \div block_size IN
      IF block_index > U32_MAX THEN ret("Err", "Arithmetic", 0, p, none)
      ELSE
        LET found == find_part(block_index, extents) IN
        IF found.kind = "Actual"
        THEN
          LET output_len == actual_output_len(p, buf_len)
              offset_in_page == p % block_size
              done == page_loop(found.extent, block_index, offset_in_page,
                                output_len, none, fault)
              read == Len(done.st.output)
          IN IF done.err # "none"
             THEN ret("Err", done.err, 0, pos_after_error(p, read), done.st)
             ELSE ret("Ok", "none", read, actual_advance(p, read), done.st)
        ELSE
          LET read == sparse_len(found.max, buf_len, p) IN
          ret("Ok", "none", read, p + read,
              [none EXCEPT !.output = zero(read)])

(***************************************************************************)
(* TreeReader::seek.  The cursor is assigned before the final assertion,   *)
(* so a seek that panics leaves the rejected position in the reader.  A    *)
(* negative (pos as i64 + diff) converts to u64 by wrapping; an i64 sum    *)
(* out of range, and len - set below zero, panic where overflow checks are *)
(* compiled in and wrap where they are not.  [pos, panic].                 *)
(***************************************************************************)
\* faulty variant: the position stays signed
as_u64_signed(x) == x

\* `as u64` of an i64, and the value a wrapping u64 subtraction leaves
as_u64(x) == x % U64_MODULUS

I64_MAX == (U64_MODULUS \div 2) - 1

\* `self.pos as i64`
as_i64(x) == IF x > I64_MAX THEN x - U64_MODULUS ELSE x

\* faulty variant: assert!(self.pos < self.len)
seek_assert_strict(p) == [pos |-> p, panic |-> ~(p < len)]

seek_assert(p) == [pos |-> p, panic |-> ~(p <= len)]

seek_result(whence, arg, overflow_checks) ==
    IF whence = "Start" THEN seek_assert(arg)
    ELSE IF whence = "Current"
    THEN LET sum == as_i64(pos) + arg IN
         IF overflow_checks /\ (sum > I64_MAX \/ sum < -I64_MAX - 1)
         THEN [pos |-> pos, panic |-> TRUE]
         ELSE seek_assert(as_u64(sum))
    ELSE \* "End"
      IF ~(arg >= 0) THEN [pos |-> pos, panic |-> TRUE]
      ELSE IF arg > len /\ overflow_checks THEN [pos |-> pos, panic |-> TRUE]
      ELSE seek_assert(as_u64(len - arg))

(***************************************************************************)
(* The states of a reader made by TreeReader::new: the extent list is what *)
(* load_extent_tree returns, sorted by part (extents.rs:308); zero-length  *)
(* and overlapping entries pass through the loader unchanged.              *)
(***************************************************************************)
Extent == [part : 0..MaxPart, start : Starts, len : ExtentLens]

IsSortedByPart(exts) ==
    \A i \in 1..Len(exts) - 1 : exts[i].part <= exts[i + 1].part

ExtentLists ==
    {exts \in UNION {[1..n -> Extent] : n \in ExtentCounts} :
        IsSortedByPart(exts)}

\* One physical placement per logical block, logically adjacent extents
\* physically apart: read and seek never branch on Extent.start.
Placement(part) == IF part % 2 = 0 THEN 3 ELSE 1

PlacedLists ==
    {exts \in ExtentLists : \A i \in 1..Len(exts) : exts[i].start = Placement(exts[i].part)}

\* the loader's accumulator before the first node, and its result before Load
Loading ==
    [extents |-> <<>>, loads |-> <<>>, checked |-> <<>>, nodes |-> <<>>,
     level |-> 0]

Pending == [err |-> "pending", extents |-> <<>>, acc |-> Loading]

SuperPending == [result |-> "pending"]

NoInodeCall ==
    [inode |-> 0, result |-> "none", err |-> "none", read |-> FALSE,
     group |-> 0, index |-> 0]

SuperIdle == disk = <<>> /\ super = SuperPending /\ inode_call = NoInodeCall

\* read_directory and load_all not called
NoDirectory == [pc |-> "none"]

NoLoadAll == [pc |-> "none"]

LibIdle == dir = NoDirectory /\ old = NoLoadAll

LoaderIdle == tree = <<>> /\ loaded = Pending /\ SuperIdle /\ LibIdle

NoCall ==
    [op |-> "none", arg |-> 0, before |-> 0, result |-> "none", err |-> "none",
     n |-> 0, buf |-> <<>>, reads |-> <<>>, decrypts |-> <<>>]

\* TreeReader::create
create(exts, size, bs, context) ==
    /\ image = [a \in 0..ImageLen - 1 |-> ImageByte(a)]
    /\ extents = exts
    /\ len = size
    /\ block_size = bs
    /\ encryption_context = context
    /\ ino = 12
    /\ pos = 0
    /\ panicked = FALSE
    /\ last = NoCall
    /\ from = 0
    /\ out = <<>>

Init ==
    /\ \E exts \in PlacedLists, size \in 0..MaxSize, bs \in BlockSizes,
          context \in BOOLEAN : create(exts, size, bs, context)
    /\ LoaderIdle

\* the TreeReader a call receives as &mut self
self ==
    [pos |-> pos, len |-> len, block_size |-> block_size,
     extents |-> extents, ino |-> ino]

\* faulty variant: the call also cuts the file at the new position
set_pos_and_len(reader, p) == [reader EXCEPT !.pos = p, !.len = p]

\* self.pos = ..., self.pos += ...: the only field read and seek assign
set_pos(reader, p) == [reader EXCEPT !.pos = p]

\* the reader the call leaves behind
store(reader) ==
    /\ pos' = reader.pos
    /\ len' = reader.len
    /\ block_size' = reader.block_size
    /\ extents' = reader.extents
    /\ ino' = reader.ino

Faults ==
    {NoFault} \cup [kind : {"io", "decrypt"}, at : 1..2]

\* io::Read::read(&mut self, buf) with buf.len() = buf_len
Read(buf_len, fault) ==
    /\ ~panicked
    /\ \E r \in {read_result(pos, buf_len, fault)} :
       /\ store(set_pos(self, r.pos))
       /\ last' = [op |-> "read", arg |-> buf_len, before |-> pos,
                   result |-> r.result, err |-> r.err, n |-> r.n,
                   buf |-> r.buf, reads |-> r.reads, decrypts |-> r.decrypts]
    /\ UNCHANGED <<image, encryption_context, panicked, tree, loaded,
                   superVars, libVars>>

\* io::Seek::seek(&mut self, pos)
Seek(whence, arg, overflow_checks) ==
    /\ ~panicked
    /\ \E r \in {seek_result(whence, arg, overflow_checks)} :
       /\ store(set_pos(self, r.pos))
       /\ panicked' = r.panic
       /\ last' = [NoCall EXCEPT !.op = whence, !.arg = arg, !.before = pos,
                      !.result = IF r.panic THEN "Panic" ELSE "Ok",
                      !.n = IF r.panic THEN 0 ELSE r.pos]
    /\ UNCHANGED <<image, encryption_context, tree, loaded, superVars,
                   libVars>>

ReadCall ==
    /\ \E buf_len \in 0..MaxBuf, fault \in Faults :
          /\ fault.kind = "decrypt" => encryption_context
          /\ Read(buf_len, fault)
    /\ UNCHANGED <<from, out>>

SeekStart ==
    /\ \E set \in 0..len + 1 : Seek("Start", set, TRUE)
    /\ UNCHANGED <<from, out>>

SeekCurrent ==
    /\ \E diff \in -(pos + 1)..(len - pos + 1) : Seek("Current", diff, TRUE)
    /\ UNCHANGED <<from, out>>

SeekEnd ==
    /\ \E set \in -1..len + 1, overflow_checks \in BOOLEAN :
          /\ ~overflow_checks => set > len
          /\ Seek("End", set, overflow_checks)
    /\ UNCHANGED <<from, out>>

Next == ReadCall \/ SeekStart \/ SeekCurrent \/ SeekEnd

Spec == Init /\ [][Next]_vars

(***************************************************************************)
(* SpecStream: seek(Start(p)) on a fresh reader, then Read::read_to_end:   *)
(* read is called with whatever spare buffer the caller has until it       *)
(* returns Ok(0) or an error; out is the vector read_to_end fills.         *)
(***************************************************************************)
InitStream ==
    /\ \E exts \in ExtentLists, size \in 0..MaxSize, bs \in BlockSizes :
          create(exts, size, bs, FALSE)
    /\ LoaderIdle

StreamEnded ==
    last.op = "read" /\ (last.result = "Err" \/ last.n = 0)

StreamSeek ==
    /\ last.op = "none"
    /\ \E set \in 0..len : Seek("Start", set, TRUE)
    /\ from' = pos'
    /\ out' = <<>>

StreamRead ==
    /\ ~StreamEnded
    /\ \E buf_len \in 1..MaxBuf : Read(buf_len, NoFault)
    /\ out' = IF last'.result = "Ok" THEN out \o last'.buf ELSE out
    /\ from' = from

NextStream == StreamSeek \/ StreamRead

SpecStream == InitStream /\ [][NextStream]_vars

(***************************************************************************)
(* The extent tree loader.                                                 *)
(*                                                                         *)
(* A node is the decoded content of its bytes: the two magic bytes, the    *)
(* header's entry count and depth, the 12-byte entries that follow and,    *)
(* for a block read from disc, the little-endian u32 in its last 4 bytes.  *)
(* An entry is kept as the four fields its 12 bytes hold, w0 (bytes 0..4), *)
(* h4 (4..6), h6 (6..8) and w8 (8..12); a leaf and an index node read the  *)
(* same bytes differently.                                                 *)
(***************************************************************************)
EXTENT_MAGIC == <<10, 243>>     \* 0x0a, 0xf3

\* faulty variant: only the first magic byte is compared
magic_ok_first_byte(data) == 10 = data.magic[1]

magic_ok(data) == 10 = data.magic[1] /\ 243 = data.magic[2]

\* faulty variant: a shallower node than expected is let through
depth_ok_at_most(expected_depth, depth) == depth <= expected_depth

\* ensure!(expected_depth == depth, ..)
depth_ok(expected_depth, depth) == expected_depth = depth

\* faulty variant: any root depth is followed
initial_depth_ok_any(depth) == TRUE

\* ensure!(depth <= 5, ..)
initial_depth_ok(depth) == depth <= 5

\* leaf entry: ee_block, ee_len, ee_start_hi, ee_start_lo
leaf_entry(raw) ==
    LET ee_block == raw.w0
        ee_len == raw.h4
        ee_start_hi == raw.h6
        ee_start_lo == raw.w8
        ee_start == ee_start_lo + 4096 * ee_start_hi
    IN [part |-> ee_block, start |-> ee_start, len |-> ee_len]

\* index entry: ei_leaf_lo (bytes 4..8), ei_leaf_hi (bytes 8..10).  The u64
\* ei_leaf_lo + (ei_leaf_hi << 32) is kept as its two halves.
index_entry(raw) ==
    LET ei_leaf_lo == raw.h4 + 65536 * raw.h6
        ei_leaf_hi == raw.w8 % 65536
    IN [hi |-> ei_leaf_hi, lo |-> ei_leaf_lo]

\* crate::load_disc_bytes: the block-sized bytes at block * block_size, or
\* an I/O error when the image has no such block.
\* t = [core, disc, checksum_prefix, verify_checksums] stands for what the
\* load_block closure reads and for the feature the crate is built with.
load_block_ok(t, ee_leaf) == ee_leaf.hi = 0 /\ ee_leaf.lo \in DOMAIN t.disc

load_block(t, ee_leaf) == t.disc[ee_leaf.lo]

\* crate::parse::ext4_style_crc32c_le(prefix, &data[..end_of_entries]): a
\* checksum of the seed and every byte before the trailing four.
RECURSIVE crc_entries(_, _)
crc_entries(c, slots) ==
    IF slots = <<>> THEN c
    ELSE crc_entries(
            (c * 31 + Head(slots).w0 * 7 + Head(slots).h4 * 5
                + Head(slots).h6 * 3 + Head(slots).w8) % 65521,
            Tail(slots))

ext4_style_crc32c_le(prefix, data) ==
    crc_entries((prefix * 131 + data.magic[1] * 17 + data.magic[2] * 13
                    + data.entries * 11 + data.depth) % 65521,
                data.slots)

\* faulty variant: the inline root is compared as well
checksum_applies_to_root(checksum_prefix_op, first_level) ==
    checksum_prefix_op # <<>>

\* if let (Some(checksum_prefix), false) = (checksum_prefix_op, first_level)
checksum_applies(checksum_prefix_op, first_level) ==
    checksum_prefix_op # <<>> /\ ~first_level

\* computed != on_disc, and cfg!(feature = "verify-checksums")
\* faulty variant: a mismatch is fatal whatever the build feature
checksum_rejects_always(t, data, checksum_prefix_op) ==
    ext4_style_crc32c_le(checksum_prefix_op[1], data) # data.crc

checksum_rejects(t, data, checksum_prefix_op) ==
    /\ ext4_style_crc32c_le(checksum_prefix_op[1], data) # data.crc
    /\ t.verify_checksums

(***************************************************************************)
(* add_found_extents.  acc gathers the extents pushed so far and, for the  *)
(* observer, the blocks loaded, the nodes whose checksum was compared and  *)
(* the nodes whose entries were read, each in order, and the number of     *)
(* add_found_extents calls open below the root's.                          *)
(***************************************************************************)
RECURSIVE add_found_extents(_, _, _, _, _, _)
RECURSIVE index_loop(_, _, _, _, _)
RECURSIVE leaf_loop(_, _, _)

leaf_loop(data, en, acc) ==
    IF ~(en < data.entries) THEN [err |-> "none", acc |-> acc]
    ELSE IF en + 1 > Len(data.slots) THEN [err |-> "Panic", acc |-> acc]
    ELSE leaf_loop(data, en + 1,
            [acc EXCEPT !.extents = Append(@, leaf_entry(data.slots[en + 1]))])

index_loop(t, data, en, acc, checksum_prefix_op) ==
    IF ~(en < data.entries) THEN [err |-> "none", acc |-> acc]
    ELSE IF en + 1 > Len(data.slots) THEN [err |-> "Panic", acc |-> acc]
    ELSE
      LET ee_leaf == index_entry(data.slots[en + 1])
          acc1 == [acc EXCEPT !.loads = Append(@, ee_leaf), !.level = @ + 1]
      IN
      IF ~load_block_ok(t, ee_leaf) THEN [err |-> "Io", acc |-> acc1]
      ELSE
        LET r == add_found_extents(t, load_block(t, ee_leaf), data.depth - 1, acc1,
                                   checksum_prefix_op, FALSE)
        IN IF r.err # "none" THEN r
           ELSE index_loop(t, data, en + 1, [r.acc EXCEPT !.level = @ - 1],
                           checksum_prefix_op)

add_found_extents(t, data, expected_depth, acc, checksum_prefix_op, first_level) ==
    IF ~magic_ok(data) THEN [err |-> "BadExtentMagic", acc |-> acc]
    ELSE IF ~depth_ok(expected_depth, data.depth)
    THEN [err |-> "DepthMismatch", acc |-> acc]
    ELSE
      LET applies == checksum_applies(checksum_prefix_op, first_level)
          acc1 == IF applies THEN [acc EXCEPT !.checked = Append(@, data)]
                  ELSE acc
          acc2 == [acc1 EXCEPT !.nodes =
                     Append(@, [data |-> data, first_level |-> first_level,
                                level |-> acc.level])]
      IN
      IF applies /\ checksum_rejects(t, data, checksum_prefix_op)
      THEN [err |-> "ChecksumMismatch", acc |-> acc1]
      ELSE IF 0 = data.depth THEN leaf_loop(data, 0, acc2)
      ELSE index_loop(t, data, 0, acc2, checksum_prefix_op)

\* extents.sort_by_key(|e| e.part): a stable sort
RECURSIVE sort_by_key(_)
sort_by_key(exts) ==
    IF exts = <<>> THEN <<>>
    ELSE LET rest == sort_by_key(Tail(exts))
             e == Head(exts)
             k == Cardinality({i \in 1..Len(rest) : rest[i].part < e.part})
         IN SubSeq(rest, 1, k) \o <<e>> \o SubSeq(rest, k + 1, Len(rest))

\* load_extent_tree(load_block, core, checksum_prefix)
load_extent_tree(t, core, checksum_prefix) ==
    IF ~magic_ok(core)
    THEN [err |-> "BadExtentMagic", extents |-> <<>>, acc |-> Loading]
    ELSE IF ~initial_depth_ok(core.depth)
    THEN [err |-> "ExtentTooDeep", extents |-> <<>>, acc |-> Loading]
    ELSE
      LET r == add_found_extents(t, core, core.depth, Loading, checksum_prefix, TRUE)
      IN IF r.err # "none"
         THEN [err |-> r.err, extents |-> <<>>, acc |-> r.acc]
         ELSE [err |-> "none", extents |-> sort_by_key(r.acc.extents),
               acc |-> r.acc]

(***************************************************************************)
(* SpecLoad: load_extent_tree applied to an inode payload (core), the      *)
(* blocks 1 and 2 of the disc, a checksum seed and the build feature.      *)
(* Images that differ only in a block the loader never reads are one       *)
(* input: such a block holds Filler.                                       *)
(***************************************************************************)
RawEntries ==
    { [w0 |-> 0, h4 |-> 1, h6 |-> 0, w8 |-> 0],
      [w0 |-> 2, h4 |-> 2, h6 |-> 0, w8 |-> 0],
      [w0 |-> 1, h4 |-> 2, h6 |-> 1, w8 |-> 5] }

SlotLists == UNION {[1..n -> RawEntries] : n \in 0..2}

Magics == {EXTENT_MAGIC, <<10, 0>>}

Prefixes == {<<>>, <<7>>}

Header(m, d, sl, c) ==
    [magic |-> m, entries |-> Len(sl), depth |-> d, slots |-> sl, crc |-> c]

\* the trailing u32 as a writer seeded with 7 computes it
GoodCrc(m, d, sl) == ext4_style_crc32c_le(7, Header(m, d, sl, 0))

RootNodes ==
    {Header(m, d, sl, 0) : m \in Magics, d \in {0, 1, 2, 6}, sl \in SlotLists}

\* blocks with a correct trailing checksum, and the same with a corrupted one
SoundBlocks ==
    {Header(m, d, sl, GoodCrc(m, d, sl)) :
        m \in Magics, d \in {0, 1}, sl \in SlotLists}

BlockNodes(prefix) ==
    IF prefix = <<>> THEN SoundBlocks
    ELSE SoundBlocks \cup {[b EXCEPT !.crc = (@ + 1) % 65521] : b \in SoundBlocks}

Filler == Header(EXTENT_MAGIC, 0, <<>>, GoodCrc(EXTENT_MAGIC, 0, <<>>))

Refs(node) == {index_entry(node.slots[i]).lo : i \in 1..Len(node.slots)}

\* the header checks of add_found_extents let the node's entries be read
Passes(node, expected_depth, prefix, verify) ==
    /\ magic_ok(node)
    /\ node.depth = expected_depth
    /\ ~(prefix # <<>> /\ verify /\ node.crc # ext4_style_crc32c_le(prefix[1], node))

Discs(core, prefix, verify) ==
    IF magic_ok(core) /\ core.depth \in 1..5 /\ core.slots # <<>>
          /\ index_entry(core.slots[1]).hi = 0
          /\ index_entry(core.slots[1]).lo \in {1, 2}
    THEN LET first == index_entry(core.slots[1]).lo
             other == 3 - first
         IN UNION {{(first :> b @@ other :> c) :
                        c \in IF /\ Passes(b, core.depth - 1, prefix, verify)
                                 /\ other \in Refs(core) \cup Refs(b)
                              THEN BlockNodes(prefix) ELSE {Filler}} :
                    b \in BlockNodes(prefix)}
    ELSE {(1 :> Filler @@ 2 :> Filler)}

InitLoad ==
    /\ \E core \in RootNodes, prefix \in Prefixes, verify \in BOOLEAN :
          \E disc \in Discs(core, prefix, verify) :
             tree = [core |-> core, disc |-> disc, checksum_prefix |-> prefix,
                     verify_checksums |-> verify]
    /\ loaded = Pending
    /\ SuperIdle
    /\ LibIdle
    /\ create(<<>>, 0, 2, FALSE)

Load ==
    /\ loaded = Pending
    /\ loaded' = load_extent_tree(tree, tree.core, tree.checksum_prefix)
    /\ UNCHANGED <<tree, image, extents, len, block_size, encryption_context,
                   ino, pos, panicked, last, from, out, superVars, libVars>>

NextLoad == Load

SpecLoad == InitLoad /\ [][NextLoad]_vars

(***************************************************************************)
(* SuperBlock::load (lib.rs).  sb holds the superblock fields the code     *)
(* keeps; gdt holds the group table as 16-bit little-endian words, word w  *)
(* at byte group_table_pos + 2 * w.  parse.rs superblock() makes the same  *)
(* checks in the same order (parse.rs:96-215).                             *)
(***************************************************************************)
EXT4_SUPER_MAGIC == 61267                   \* 0xEF53

EXT4_BLOCK_GROUP_INODES_UNUSED == 1
EXT4_BLOCK_GROUP_BLOCKS_UNUSED == 2

INCOMPAT_FILETYPE == 2
INCOMPAT_EXTENTS == 64
INCOMPAT_64BIT == 128
INCOMPAT_FLEX_BG == 512

\* every flag the bitflags! struct IncompatibleFeature declares
IncompatibleFeature ==
    {1, 2, 4, 8, 16, 64, 128, 256, 512, 1024, 4096, 8192, 16384, 32768, 65536}

\* the single-bit masks set in a u32 below 2^30
masks(x) == {2 ^ k : k \in {k \in 0..29 : (x \div (2 ^ k)) % 2 = 1}}

\* bit tests on u16 flag words: x & m != 0 for a single-bit m
has(x, m) == (x \div m) % 2 = 1

\* IncompatibleFeature::from_bits: None when a bit is not a declared flag
from_bits_ok(s_feature_incompat) ==
    masks(s_feature_incompat) \subseteq IncompatibleFeature

supported_incompatible_features ==
    {INCOMPAT_FILETYPE, INCOMPAT_EXTENTS, INCOMPAT_FLEX_BG, INCOMPAT_64BIT}

\* faulty variant: the unsupported flags pass
intersects_unsupported_never(incompatible_features) == FALSE

\* incompatible_features.intersects(!supported_incompatible_features)
intersects_unsupported(incompatible_features) ==
    masks(incompatible_features)
        \cap (IncompatibleFeature \ supported_incompatible_features) # {}

SuperErr(kind) == [result |-> "Err", err |-> kind]

SuperPanic(kind) == [result |-> "Panic", err |-> kind]

\* faulty variant: a filesystem with errors detected passes
state_unclean_ignoring_errors(s_state) == ~has(s_state, 1)

\* s_state & S_STATE_UNMOUNTED_CLEANLY == 0 || s_state & S_STATE_ERRORS_DETECTED != 0
state_unclean(s_state) == ~has(s_state, 1) \/ has(s_state, 2)

\* match s_log_block_size: 0 when no arm matches
block_size_of(s_log_block_size) ==
    CASE s_log_block_size = 0 -> 1024
      [] s_log_block_size = 1 -> 2048
      [] s_log_block_size = 2 -> 4096
      [] s_log_block_size = 6 -> 65536
      [] OTHER -> 0

\* The checks between the field reads and the group table, in the order of
\* the code: the first that fails ends the call.
superblock_checks(sb) ==
    IF ~from_bits_ok(sb.s_feature_incompat) THEN SuperErr("UnknownFeature")
    ELSE IF intersects_unsupported(sb.s_feature_incompat)
    THEN SuperErr("UnsupportedFeature")
    ELSE IF EXT4_SUPER_MAGIC # sb.s_magic THEN SuperErr("InvalidMagic")
    ELSE IF 0 # sb.s_creator_os THEN SuperErr("NotLinux")
    ELSE IF state_unclean(sb.s_state) THEN SuperErr("NotClean")
    ELSE IF 0 = sb.s_inodes_per_group THEN SuperErr("ZeroInodesPerGroup")
    ELSE IF block_size_of(sb.s_log_block_size) = 0
    THEN SuperErr("UnexpectedBlockSize")
    ELSE IF ~has(sb.s_feature_incompat, INCOMPAT_64BIT) /\ ~(0 = sb.s_desc_size)
    THEN SuperPanic("assert_eq!(0, s_desc_size)")
    ELSE IF 1 # sb.s_rev_level THEN SuperErr("UnsupportedRevLevel")
    ELSE [result |-> "Ok", err |-> "none"]

(***************************************************************************)
(* The group table loop.  c is the read position in bytes from             *)
(* group_table_pos; a read past the last word of gdt is an I/O error.      *)
(* Each parsed group is recorded with what the loop read for it: the       *)
(* position it started at, the position the loop left behind, and the      *)
(* descriptor fields.                                                      *)
(***************************************************************************)
read_u16(gdt, c) == gdt[(c \div 2) + 1]

read_u32(gdt, c) == gdt[(c \div 2) + 1] + 65536 * gdt[(c \div 2) + 2]

\* bytes of the high halves read after the first 32 bytes of a descriptor
hi_bytes(s_desc_size) ==
    (IF s_desc_size < 4 THEN 0 ELSE 4)
  + (IF s_desc_size < 4 + 4 THEN 0 ELSE 4)
  + (IF s_desc_size < 4 + 4 + 4 THEN 0 ELSE 4)
  + (IF s_desc_size < 4 + 4 + 4 + 2 THEN 0 ELSE 2)
  + (IF s_desc_size < 4 + 4 + 4 + 2 + 2 THEN 0 ELSE 2)

\* inner.seek(SeekFrom::Current(s_desc_size - 16)) when s_desc_size > 16
skip_bytes(s_desc_size) == IF s_desc_size > 16 THEN s_desc_size - 16 ELSE 0

\* faulty variant: an unallocated group keeps its count
group_inodes_ignoring_flags(bg_flags, s_inodes_per_group, free_inodes_count) ==
    s_inodes_per_group - free_inodes_count

group_inodes(bg_flags, s_inodes_per_group, free_inodes_count) ==
    LET unallocated == \/ has(bg_flags, EXT4_BLOCK_GROUP_INODES_UNUSED)
                       \/ has(bg_flags, EXT4_BLOCK_GROUP_BLOCKS_UNUSED)
    IN IF unallocated THEN 0 ELSE s_inodes_per_group - free_inodes_count

RECURSIVE group_loop(_, _, _, _, _, _)
group_loop(d, block, blocks_count, c, groups, descs) ==
    IF ~(block < blocks_count)
    THEN [result |-> "Ok", err |-> "none", groups |-> groups, descs |-> descs]
    ELSE
      LET s_desc_size == d.sb.s_desc_size
          after_reads == c + 32 + hi_bytes(s_desc_size)
      IN
      IF after_reads > 2 * Len(d.gdt)
      THEN [result |-> "Err", err |-> "Io", groups |-> groups, descs |-> descs]
      ELSE
        LET bg_inode_table_lo == read_u32(d.gdt, c + 8)
            bg_free_inodes_count_lo == read_u16(d.gdt, c + 14)
            bg_flags == read_u16(d.gdt, c + 18)
            bg_inode_table_hi ==
                IF s_desc_size < 4 + 4 + 4 THEN 0 ELSE read_u32(d.gdt, c + 40)
            bg_free_inodes_count_hi ==
                IF s_desc_size < 4 + 4 + 4 + 2 + 2 THEN 0
                ELSE read_u16(d.gdt, c + 46)
            next == after_reads + skip_bytes(s_desc_size)
            inode_table_block == [hi |-> bg_inode_table_hi,
                                  lo |-> bg_inode_table_lo]
            free_inodes_count ==
                bg_free_inodes_count_lo + 65536 * bg_free_inodes_count_hi
            desc == [at |-> c, next |-> next, bg_flags |-> bg_flags,
                     free_inodes_count |-> free_inodes_count,
                     inode_table_block |-> inode_table_block]
        IN
        IF free_inodes_count > d.sb.s_inodes_per_group
        THEN [result |-> "Err", err |-> "TooManyFreeInodes",
              groups |-> groups, descs |-> Append(descs, desc)]
        ELSE group_loop(d, block + 1, blocks_count, next,
                Append(groups,
                    [inode_table_block |-> inode_table_block,
                     inodes |-> group_inodes(bg_flags, d.sb.s_inodes_per_group,
                                             free_inodes_count)]),
                Append(descs, desc))

\* group_table_pos
group_table_pos(bs) == IF 1024 = bs THEN 1024 + 1024 ELSE bs

\* (s_blocks_count_lo + (s_blocks_count_hi << 32) - s_first_data_block
\*   + s_blocks_per_group - 1) / s_blocks_per_group in u64.  The images of
\* the model have s_blocks_count_hi = 0.  [panic, count]
blocks_count_of(sb, overflow_checks) ==
    LET total == sb.s_blocks_count_lo
        less == total - sb.s_first_data_block
        sum == as_u64(as_u64(as_u64(less) + sb.s_blocks_per_group) - 1)
    IN IF less < 0 /\ overflow_checks
       THEN [panic |-> "SubtractOverflow", count |-> 0]
       ELSE IF sb.s_blocks_per_group = 0
       THEN [panic |-> "DivideByZero", count |-> 0]
       ELSE [panic |-> "none", count |-> sum \div sb.s_blocks_per_group]

\* SuperBlock::load
load(d, overflow_checks) ==
    LET checked == superblock_checks(d.sb) IN
    IF checked.result # "Ok" THEN checked
    ELSE
      LET bs == block_size_of(d.sb.s_log_block_size)
          bc == blocks_count_of(d.sb, overflow_checks)
      IN
      IF bc.panic # "none" THEN SuperPanic(bc.panic)
      ELSE
        LET looped == group_loop(d, 0, bc.count, 0, <<>>, <<>>) IN
        IF looped.result # "Ok"
        THEN [result |-> "Err", err |-> looped.err, descs |-> looped.descs]
        ELSE [result |-> "Ok", err |-> "none",
              block_size |-> bs,
              inode_size |-> d.sb.s_inode_size,
              inodes_per_group |-> d.sb.s_inodes_per_group,
              groups |-> looped.groups,
              group_table_pos |-> group_table_pos(bs),
              descs |-> looped.descs]

(***************************************************************************)
(* SuperBlock::load_inode.  The inode bytes are those the image holds at   *)
(* the computed position; d.inode gives the i_mode and i_flags found       *)
(* there.  [inode, result, err, read, group, index]: read tells whether    *)
(* the call went on to seek and read inode bytes.                          *)
(***************************************************************************)
\* FileType::from_mode: Some for the seven known values of mode >> 12
from_mode_ok(mode) == (mode \div 4096) \in {1, 2, 4, 6, 8, 10, 12}

\* every flag the bitflags! struct InodeFlags declares below 2^30
InodeFlags ==
    {1, 2, 4, 8, 16, 32, 64, 128, 256, 512, 1024, 2048, 4096, 8192, 16384,
     32768, 65536, 131072, 262144, 524288, 2097152, 4194304, 268435456,
     536870912}

InodeCall(inode, result, err, read, group, index) ==
    [inode |-> inode, result |-> result, err |-> err, read |-> read,
     group |-> group, index |-> index]

\* faulty variant: the last inode of a group is one past its end
index_in_group_inclusive(inode_index_in_group, inodes) ==
    inode_index_in_group <= inodes

\* assert!(inode_index_in_group < group.inodes, ..)
index_in_group(inode_index_in_group, inodes) ==
    inode_index_in_group < inodes

load_inode(sup, d, inode) ==
    IF ~(0 # inode)
    THEN InodeCall(inode, "Panic", "assert_ne!(0, inode)", FALSE, 0, 0)
    ELSE
      LET group_number == (inode - 1) \div sup.inodes_per_group
          inode_index_in_group == (inode - 1) % sup.inodes_per_group
      IN
      IF ~(group_number < Len(sup.groups))
      THEN InodeCall(inode, "Panic", "index out of bounds", FALSE,
                     group_number, inode_index_in_group)
      ELSE IF ~index_in_group(inode_index_in_group,
                              sup.groups[group_number + 1].inodes)
      THEN InodeCall(inode, "Panic", "inode number must fit in group", FALSE,
                     group_number, inode_index_in_group)
      ELSE IF ~from_mode_ok(d.inode.i_mode)
      THEN InodeCall(inode, "Err", "UnexpectedFileType", TRUE,
                     group_number, inode_index_in_group)
      ELSE IF ~(masks(d.inode.i_flags) \subseteq InodeFlags)
      THEN InodeCall(inode, "Panic", "unrecognised inode flags", TRUE,
                     group_number, inode_index_in_group)
      ELSE InodeCall(inode, "Ok", "none", TRUE,
                     group_number, inode_index_in_group)

(***************************************************************************)
(* SpecSuper: the images.  A superblock is drawn field by field; where its *)
(* checks pass, the group table holds one descriptor per group at the      *)
(* stride the format gives it (32 bytes, or s_desc_size with 64BIT) and    *)
(* zero words after the last one.                                          *)
(***************************************************************************)
MaxInode == 5       \* load_inode is called with 0..MaxInode
GdtWords == 80      \* 16-bit words of image from group_table_pos on

SuperBlocks ==
    [s_magic : {EXT4_SUPER_MAGIC, 61268},
     s_state : 0..3,
     s_creator_os : {0, 1},
     s_rev_level : {0, 1},
     s_inodes_per_group : {0, 2},
     s_log_block_size : {0, 1, 3},
     s_feature_incompat : {0, 2, 66, 130, 128, 706, 3, 34, 65538},
     s_desc_size : {0, 32, 64},
     s_blocks_count_lo : {0, 8, 9},
     s_first_data_block : {0, 1},
     s_blocks_per_group : {0, 8},
     s_inode_size : {128}]

GroupDescs ==
    [bg_inode_table_lo : {5},
     bg_free_inodes_count_lo : {0, 1, 3},
     bg_flags : {0, 1, 2, 4},
     bg_inode_table_hi : {0},
     bg_free_inodes_count_hi : {0, 1}]

\* the distance between two descriptors of the table
Stride(sb) ==
    IF has(sb.s_feature_incompat, INCOMPAT_64BIT) /\ sb.s_desc_size # 0
    THEN sb.s_desc_size ELSE 32

\* word w of a table holding the descriptors bgs at stride D
GdtWord(bgs, D, w) ==
    LET g == (2 * w) \div D
        off == (2 * w) % D
    IN IF ~(g < Len(bgs)) THEN 0
       ELSE LET bg == bgs[g + 1] IN
            CASE off = 8 -> bg.bg_inode_table_lo % 65536
              [] off = 10 -> bg.bg_inode_table_lo \div 65536
              [] off = 14 -> bg.bg_free_inodes_count_lo
              [] off = 18 -> bg.bg_flags
              [] off = 40 -> bg.bg_inode_table_hi % 65536
              [] off = 42 -> bg.bg_inode_table_hi \div 65536
              [] off = 46 -> bg.bg_free_inodes_count_hi
              [] OTHER -> 0

Gdt(bgs, D) == [i \in 1..GdtWords |-> GdtWord(bgs, D, i - 1)]

\* the descriptors a table can hold for sb
Tables(sb) ==
    LET bc == blocks_count_of(sb, TRUE) IN
    IF superblock_checks(sb).result = "Ok" /\ bc.panic = "none"
    THEN [1..bc.count -> {bg \in GroupDescs :
                            Stride(sb) = 32 => bg.bg_free_inodes_count_hi = 0}]
    ELSE {<<>>}

Inodes(sb) ==
    IF superblock_checks(sb).result = "Ok"
    THEN {[i_mode |-> 33188, i_flags |-> 524288],
          [i_mode |-> 12708, i_flags |-> 524288],
          [i_mode |-> 33188, i_flags |-> 1048576]}
    ELSE {[i_mode |-> 33188, i_flags |-> 524288]}

InitSuper ==
    /\ \E sb \in SuperBlocks :
          \E bgs \in Tables(sb), inode \in Inodes(sb) :
             disk = [sb |-> sb, bgs |-> bgs, gdt |-> Gdt(bgs, Stride(sb)),
                     inode |-> inode]
    /\ super = SuperPending
    /\ inode_call = NoInodeCall
    /\ tree = <<>>
    /\ loaded = Pending
    /\ LibIdle
    /\ create(<<>>, 0, 2, FALSE)

LoadSuper ==
    /\ super = SuperPending
    /\ \E overflow_checks \in BOOLEAN :
          /\ ~overflow_checks =>
                disk.sb.s_blocks_count_lo < disk.sb.s_first_data_block
          /\ super' = load(disk, overflow_checks)
    /\ UNCHANGED <<disk, inode_call, readerVars, loaderVars, libVars>>

LoadInode ==
    /\ super # SuperPending
    /\ super.result = "Ok"
    /\ \E inode \in 0..MaxInode :
          inode_call' = load_inode(super, disk, inode)
    /\ UNCHANGED <<disk, super, readerVars, loaderVars, libVars>>

NextSuper == LoadSuper \/ LoadInode

SpecSuper == InitSuper /\ [][NextSuper]_vars

(***************************************************************************)
(* SuperBlock::read_directory: the record loop over the bytes load_all     *)
(* returned.  dir = [pc, data, cursor, read, dirs, ...]: data is the byte  *)
(* vector, cursor the io::Cursor position, read the consumed count, dirs   *)
(* the offsets of the records pushed as DirEntry.  One iteration is two    *)
(* steps: the reads of the record (pc "record") and the seek, push and     *)
(* accounting that follow (pc "seek").                                     *)
(***************************************************************************)
MaxRecords == 2     \* 12-byte slots the directory data is built from

\* dirs may grow up to here; above every count a loop over rec_len >= 4 gives
MaxDirs == 6 * MaxRecords + 1

u16_le(r) == <<r % 256, r \div 256>>

u32_le(w) == <<w % 256, (w \div 256) % 256, 0, 0>>

\* as_u16 / read_u16::<LittleEndian> at byte offset c (from 0)
dir_u16(data, c) == data[c + 1] + 256 * data[c + 2]

\* read_u32::<LittleEndian> at byte offset c
dir_u32(data, c) ==
    data[c + 1] + 256 * data[c + 2] + 65536 * (data[c + 3] + 256 * data[c + 4])

\* FileType::from_dir_hint(file_type).is_some()
from_dir_hint_ok(hint) == hint \in 1..7

\* std::str::from_utf8(&name).is_ok(), for names of bytes below 0x80 or 0xff
from_utf8_ok(data, c, name_len) ==
    \A i \in 1..name_len : data[c + i] < 128

DirDone(d, result, err) == [d EXCEPT !.pc = "done", !.result = result, !.err = err]

\* child_inode, rec_len, name_len, file_type and the name are read
read_record(d) ==
    LET total_len == Len(d.data)
        c == d.cursor
    IN IF c + 8 > total_len THEN DirDone(d, "Err", "UnexpectedEof")
       ELSE
         LET name_len == d.data[c + 7] IN
         IF c + 8 + name_len > total_len THEN DirDone(d, "Err", "UnexpectedEof")
         ELSE [d EXCEPT !.pc = "seek",
                        !.child_inode = dir_u32(d.data, c),
                        !.rec_len = dir_u16(d.data, c + 4),
                        !.name_len = name_len,
                        !.file_type = d.data[c + 8],
                        !.name_at = c + 8,
                        !.cursor = c + 8 + name_len]

\* read += rec_len as usize
consumed(read, rec_len) == read + rec_len

\* cursor.seek(Current(rec_len - name_len - 4 - 2 - 2)), the push of the
\* entry, read += rec_len and the test that ends the loop
seek_and_account(d) ==
    LET total_len == Len(d.data)
        target == d.cursor + (d.rec_len - d.name_len - 4 - 2 - 2)
    IN IF target < 0 THEN DirDone(d, "Err", "InvalidSeek")
       ELSE
         LET d1 == [d EXCEPT !.cursor = target] IN
         IF 0 # d.child_inode /\ ~from_utf8_ok(d.data, d.name_at, d.name_len)
         THEN DirDone(d1, "Err", "InvalidUtf8")
         ELSE IF 0 # d.child_inode /\ ~from_dir_hint_ok(d.file_type)
         THEN DirDone(d1, "Panic", "valid file type")
         ELSE
           LET d2 == IF 0 # d.child_inode
                     THEN [d1 EXCEPT !.dirs = Append(@, d.name_at - 8)]
                     ELSE d1
               read == consumed(d.read, d.rec_len)
               d3 == [d2 EXCEPT !.read = read]
           IN IF read >= total_len
              THEN IF read = total_len THEN DirDone(d3, "Ok", "none")
                   ELSE DirDone(d3, "Panic", "assert_eq!(read, total_len)")
              ELSE [d3 EXCEPT !.pc = "record"]

(***************************************************************************)
(* SpecDir: read_directory over directory data of up to MaxRecords slots   *)
(* of 12 bytes, an 8-byte record header and 4 name bytes, with any rec_len *)
(* and name_len in the header.                                             *)
(***************************************************************************)
Slots ==
    {u32_le(child_inode) \o u16_le(rec_len) \o <<name_len, file_type>>
        \o <<fill, fill, fill, fill>> :
        child_inode \in {0, 2}, rec_len \in {0, 4, 12, 24},
        name_len \in {0, 4, 9}, file_type \in {1, 9}, fill \in {97, 255}}

RECURSIVE Concat(_)
Concat(ss) == IF ss = <<>> THEN <<>> ELSE Head(ss) \o Concat(Tail(ss))

DirData == {Concat(ss) : ss \in UNION {[1..n -> Slots] : n \in 0..MaxRecords}}

InitDir ==
    /\ \E data \in DirData :
          dir = [pc |-> "record", data |-> data, cursor |-> 0, read |-> 0,
                 dirs |-> <<>>, child_inode |-> 0, rec_len |-> 0,
                 name_len |-> 0, file_type |-> 0, name_at |-> 0,
                 result |-> "none", err |-> "none"]
    /\ old = NoLoadAll
    /\ tree = <<>>
    /\ loaded = Pending
    /\ SuperIdle
    /\ create(<<>>, 0, 2, FALSE)

ReadRecord ==
    /\ dir.pc = "record"
    /\ dir' = read_record(dir)
    /\ UNCHANGED <<old, readerVars, loaderVars, superVars>>

SeekAndAccount ==
    /\ dir.pc = "seek"
    /\ (0 # dir.child_inode) => Len(dir.dirs) < MaxDirs
    /\ dir' = seek_and_account(dir)
    /\ UNCHANGED <<old, readerVars, loaderVars, superVars>>

NextDir == ReadRecord \/ SeekAndAccount

SpecDir == InitDir /\ [][NextDir]_vars

(***************************************************************************)
(* lib.rs: SuperBlock::load_all, reader_for and lib.rs's own TreeReader.   *)
(* old = [pc, size, block_size, extents, pos, sparse_bytes, inner, ret,    *)
(* result, err]: extents, pos and sparse_bytes are the reader's fields     *)
(* (sparse_bytes <<>> for None, <<n>> for Some(n)), inner the position of  *)
(* the image stream the reader owns, ret the bytes read_to_end has put     *)
(* into the vector.  The extent's logical block is the field `part`.       *)
(***************************************************************************)
\* the vector may grow up to here; above what the image and the holes give
MaxRet == ImageLen + 3 * MaxPart

LoadAllDone(o, result, err) ==
    [o EXCEPT !.pc = "done", !.result = result, !.err = err]

\* reader_for: extents[0] is indexed, the stream is moved to its start and
\* its logical block is asserted to be 0
reader_for(exts, size, bs) ==
    LET o == [pc |-> "reading", size |-> size, block_size |-> bs,
              extents |-> exts, pos |-> 0, sparse_bytes |-> <<>>,
              inner |-> 0, ret |-> 0, result |-> "none", err |-> "none"]
    IN IF exts = <<>> THEN LoadAllDone(o, "Panic", "index out of bounds")
       ELSE IF 0 # exts[1].part
       THEN LoadAllDone(o, "Panic", "assert_eq!(0, extents[0].block)")
       ELSE [o EXCEPT !.inner = exts[1].start * bs]

\* assert_eq!(size, ..read_to_end(&mut ret)?) once read has returned Ok(0)
assert_size(o) ==
    IF o.size = o.ret THEN LoadAllDone(o, "Ok", "none")
    ELSE LoadAllDone(o, "Panic", "assert_eq!(size, read_to_end)")

\* "we finished reading the current extent"
finish_extent(o, overflow_checks) ==
    LET last_extent == o.extents[1]
        rest == Tail(o.extents)
    IN IF rest = <<>> THEN [o EXCEPT !.extents = rest]
       ELSE
         LET last_ended == last_extent.part + last_extent.len
             new_starts == rest[1].part
             hole_size == as_u64(as_u64(new_starts - last_ended) * o.block_size)
         IN IF new_starts < last_ended /\ overflow_checks
            THEN LoadAllDone(o, "Panic", "subtract with overflow")
            ELSE IF 0 # hole_size
            THEN [o EXCEPT !.extents = rest, !.sparse_bytes = <<hole_size>>]
            ELSE [o EXCEPT !.extents = rest]

\* one read call of read_to_end on lib.rs's TreeReader with a buffer of
\* buf_len > 0 bytes; got is what inner.read returns for the bytes asked
old_read(o, buf_len, got, overflow_checks) ==
    IF o.extents = <<>> THEN assert_size(o)
    ELSE IF o.sparse_bytes # <<>>
    THEN LET remaining_sparse == o.sparse_bytes[1] IN
         IF buf_len < remaining_sparse
         THEN [o EXCEPT !.sparse_bytes = <<remaining_sparse - buf_len>>,
                        !.ret = @ + buf_len]
         ELSE [o EXCEPT !.sparse_bytes = <<>>, !.ret = @ + remaining_sparse]
    ELSE
      LET reading_extent == o.extents[1]
          this_extent_len_bytes == reading_extent.len * o.block_size
          bytes_until_end == as_u64(this_extent_len_bytes - o.pos)
          to_read == Min(buf_len, bytes_until_end)
          read == Min(got, Min(to_read, ImageLen - o.inner))
      IN IF this_extent_len_bytes < o.pos /\ overflow_checks
         THEN LoadAllDone(o, "Panic", "subtract with overflow")
         ELSE IF 0 = read THEN LoadAllDone(o, "Panic", "assert_ne!(0, read)")
         ELSE
           LET o1 == [o EXCEPT !.inner = @ + read, !.ret = @ + read] IN
           IF read # bytes_until_end THEN [o1 EXCEPT !.pos = @ + read]
           ELSE finish_extent(o1, overflow_checks)

(***************************************************************************)
(* SpecLoadAll: load_all for an inode of any size 0..MaxSize whose extent  *)
(* tree loaded to a sorted list; read_to_end calls read with whatever      *)
(* spare room the vector has, and the image stream may hand over fewer     *)
(* bytes than asked.                                                       *)
(***************************************************************************)
InitLoadAll ==
    /\ \E exts \in PlacedLists, size \in 0..MaxSize, bs \in BlockSizes :
          old = reader_for(exts, size, bs)
    /\ dir = NoDirectory
    /\ tree = <<>>
    /\ loaded = Pending
    /\ SuperIdle
    /\ create(<<>>, 0, 2, FALSE)

OldRead ==
    /\ old.pc = "reading"
    /\ old.ret < MaxRet
    /\ \E buf_len \in 1..MaxBuf, got \in 1..MaxBuf, overflow_checks \in BOOLEAN :
          /\ got <= buf_len
          /\ old' = old_read(old, buf_len, got, overflow_checks)
    /\ UNCHANGED <<dir, readerVars, loaderVars, superVars>>

NextLoadAll == OldRead

SpecLoadAll == InitLoadAll /\ [][NextLoadAll]_vars

(***************************************************************************)
(* The file the reader stands for: block b is mapped when an extent of the *)
(* list covers it, and its bytes are then those of the image at the        *)
(* extent's physical place; every other byte of [0, len) is zero.          *)
(***************************************************************************)
Covers(e, b) == e.part <= b /\ b < e.part + e.len

Covered(b) == \E i \in 1..Len(extents) : Covers(extents[i], b)

CoveringExtent(b) ==
    extents[CHOOSE i \in 1..Len(extents) :
                /\ Covers(extents[i], b)
                /\ \A j \in 1..i - 1 : ~Covers(extents[j], b)]

FileAddr(p) ==
    LET b == p \div block_size
        e == CoveringExtent(b)
    IN (e.start + (b - e.part)) * block_size + (p % block_size)

FileByte(p) ==
    IF Covered(p \div block_size)
    THEN [val |-> image[FileAddr(p)], addr |-> FileAddr(p)]
    ELSE ZeroByte

FullyCovered == \A p \in 0..len - 1 : Covered(p \div block_size)

NonOverlapping ==
    \A i \in 1..Len(extents) - 1 :
        extents[i].part + extents[i].len <= extents[i + 1].part

HasGap == \E p \in 0..len - 1 : ~Covered(p \div block_size)

ReadToEndOk == last.op = "read" /\ last.result = "Ok" /\ last.n = 0

(***************************************************************************)
(* C1: with a sorted extent list covering every block of [0, len),         *)
(* read_to_end from pos 0 delivers for every offset p the image byte at    *)
(* (e.start + (p div block_size - e.part)) * block_size + p mod block_size *)
(* of the extent e covering the block: each extent is read from its own    *)
(* physical start.                                                         *)
(***************************************************************************)
C1_MappedBytes ==
    (from = 0 /\ FullyCovered) =>
        /\ \A i \in 1..Len(out) :
              /\ i <= len
              /\ out[i].addr = FileAddr(i - 1)
              /\ out[i].val = image[FileAddr(i - 1)]
        /\ ReadToEndOk => Len(out) = len

C1_Witness ==
    /\ from = 0 /\ FullyCovered /\ ReadToEndOk
    /\ Len(extents) = 2
    /\ extents[1].len > 0
    /\ extents[2].part = extents[1].part + extents[1].len
    /\ extents[2].start # extents[1].start + extents[1].len
    /\ len > extents[2].part * block_size
    /\ Len(out) = len

(***************************************************************************)
(* C2: size law.  Reading from pos 0 until read returns 0 delivers exactly *)
(* len bytes when no image read fails, and never more than len, also when  *)
(* the last mapped block extends past len.                                 *)
(***************************************************************************)
C2_SizeLaw ==
    from = 0 =>
        /\ Len(out) <= len
        /\ ReadToEndOk => Len(out) = len

C2_Witness ==
    /\ from = 0 /\ ReadToEndOk /\ Len(out) = len
    /\ len % block_size # 0
    /\ Covered(len \div block_size)
    /\ HasGap

(***************************************************************************)
(* C3: byte accuracy whatever the chunking.  For a sorted, non-overlapping *)
(* list with gaps and any sequence of reads from pos 0 with non-empty      *)
(* buffers, the byte delivered for offset p is the mapped image byte when  *)
(* an extent covers block p div block_size and zero otherwise.             *)
(***************************************************************************)
C3_ChunkedBytes ==
    (from = 0 /\ NonOverlapping) =>
        \A i \in 1..Len(out) : out[i] = FileByte(i - 1)

(***************************************************************************)
(* C4: sparse correctness.  After any sequence of read and seek calls,     *)
(* every byte a read delivers for an offset whose block no extent covers   *)
(* is zero, and the call that delivers it issues no image read.            *)
(***************************************************************************)
C4_SparseZero ==
    last.op = "read" =>
        \A i \in 1..Len(last.buf) :
            ~Covered((last.before + i - 1) \div block_size) =>
                /\ last.buf[i] = ZeroByte
                /\ last.reads = <<>>

C4_Witness ==
    /\ last.op = "read" /\ last.result = "Ok" /\ last.n > 0
    /\ last.before > 0
    /\ Len(extents) > 0
    /\ \A i \in 1..Len(last.buf) :
          ~Covered((last.before + i - 1) \div block_size)

(***************************************************************************)
(* C5: monotone positions.  With no seek in between, a successful read     *)
(* that returns n hands over n bytes for the offsets [pos, pos + n) and    *)
(* advances pos by exactly n: the delivered offsets are a gap-free prefix  *)
(* of [from, len), and every byte taken from the image is the byte of its  *)
(* offset.                                                                 *)
(***************************************************************************)
C5_MonotonePositions ==
    /\ pos = from + Len(out)
    /\ pos <= len
    /\ (last.op = "read" /\ last.result = "Ok") =>
          /\ last.n = Len(last.buf)
          /\ pos = last.before + last.n
          /\ \A i \in 1..Len(last.buf) :
                last.buf[i].addr # -1 =>
                    last.buf[i].addr = FileAddr(last.before + i - 1)

C5_Witness ==
    /\ last.op = "read" /\ last.result = "Ok" /\ last.n > 1
    /\ last.before > from
    /\ last.before % block_size # 0
    /\ last.buf[last.n].addr # -1
    /\ Len(last.reads) = 2

(***************************************************************************)
(* C6: seek closure.  For every p in [0, len] and every prior state of the *)
(* reader, seek(Start(p)) succeeds, returns p and leaves pos = p.          *)
(***************************************************************************)
C6_SeekClosure ==
    (last.op = "Start" /\ last.arg <= len) =>
        /\ last.result = "Ok"
        /\ last.n = last.arg
        /\ pos = last.arg
        /\ ~panicked

C6_Witness ==
    /\ last.op = "Start" /\ last.arg = len /\ len > 0
    /\ last.before # last.arg
    /\ last.result = "Ok"

(***************************************************************************)
(* C7: seek-and-read.  For any extent list and any p in [0, len],          *)
(* seek(Start(p)) followed by read_to_end yields the file content from     *)
(* offset p onward, the last len - p bytes of the file.                    *)
(***************************************************************************)
C7_SeekAndRead ==
    (last.op = "read" /\ last.result = "Ok" /\ last.n = 0) =>
        out = [i \in 1..len - from |-> FileByte(from + i - 1)]

(***************************************************************************)
(* C8: cursor invariant.  After calls that returned, 0 <= pos <= len; a    *)
(* seek whose target lies outside [0, len] never returns.                  *)
(***************************************************************************)
SeekTargetOutside ==
    \/ last.op = "Start" /\ last.arg > len
    \/ last.op = "Current" /\ (last.before + last.arg < 0 \/ last.before + last.arg > len)
    \/ last.op = "End" /\ last.arg > len

C8_CursorInvariant ==
    /\ ~panicked => (0 <= pos /\ pos <= len)
    /\ SeekTargetOutside => (last.result = "Panic" /\ panicked)

C8_Witness ==
    /\ last.op = "Current" /\ last.before > 0
    /\ last.before + last.arg < 0
    /\ panicked

(***************************************************************************)
(* C9: a read in which an image read or decrypt_page fails, also after     *)
(* earlier blocks of the same call were read, returns the error and leaves *)
(* pos where it was before the call.                                       *)
(***************************************************************************)
C9_ErrorKeepsCursor ==
    (last.op = "read" /\ last.result = "Err") =>
        /\ last.err \in {"Io", "DecryptFailed"}
        /\ pos = last.before
        /\ last.n = 0

C9_Witness ==
    /\ last.op = "read" /\ last.result = "Err"
    /\ last.err = "DecryptFailed"
    /\ Len(last.buf) > 0
    /\ Len(last.reads) = 2

(***************************************************************************)
(* C10: checksum policy.  With a checksum seed present and a non-root node *)
(* whose trailing CRC32C does not match, load_extent_tree fails with a     *)
(* checksum mismatch when verify-checksums is enabled, and otherwise gives *)
(* exactly what it gives for the same image with the checksum matching.    *)
(***************************************************************************)
Mismatches(node) ==
    node.crc # ext4_style_crc32c_le(tree.checksum_prefix[1], node)

ComparedMismatch ==
    /\ loaded # Pending
    /\ tree.checksum_prefix # <<>>
    /\ \E i \in 1..Len(loaded.acc.checked) : Mismatches(loaded.acc.checked[i])

Repaired ==
    [tree EXCEPT !.disc =
        [b \in DOMAIN tree.disc |->
            [tree.disc[b] EXCEPT !.crc =
                ext4_style_crc32c_le(tree.checksum_prefix[1], tree.disc[b])]]]

C10_ChecksumPolicy ==
    ComparedMismatch =>
        IF tree.verify_checksums
        THEN loaded.err = "ChecksumMismatch" /\ loaded.extents = <<>>
        ELSE LET sound == load_extent_tree(Repaired, tree.core, tree.checksum_prefix)
             IN /\ loaded.err = sound.err
                /\ loaded.extents = sound.extents

C10_Witness ==
    /\ ComparedMismatch
    /\ ~tree.verify_checksums
    /\ loaded.err = "none"
    /\ Len(loaded.acc.checked) = 2
    /\ Mismatches(loaded.acc.checked[1])
    /\ Len(loaded.extents) >= 3

(***************************************************************************)
(* C11: sorted extents.  Whenever load_extent_tree succeeds, the list it   *)
(* returns is sorted by logical block and pairwise non-overlapping:        *)
(* list[i].part + list[i].len <= list[i + 1].part for consecutive entries. *)
(***************************************************************************)
LoadedDisjoint ==
    \A i \in 1..Len(loaded.extents) - 1 :
        loaded.extents[i].part + loaded.extents[i].len
            <= loaded.extents[i + 1].part

C11_SortedDisjoint ==
    (loaded # Pending /\ loaded.err = "none") =>
        /\ IsSortedByPart(loaded.extents)
        /\ LoadedDisjoint

(***************************************************************************)
(* Superblock claims: what the image holds, and how load ended.            *)
(***************************************************************************)
SuperLoaded == super # SuperPending

GateHolds ==
    /\ disk.sb.s_magic = 61267
    /\ disk.sb.s_state % 2 = 1
    /\ (disk.sb.s_state \div 2) % 2 = 0
    /\ disk.sb.s_creator_os = 0
    /\ disk.sb.s_rev_level = 1
    /\ disk.sb.s_inodes_per_group > 0

FeatureBitsOutside ==
    \E k \in 0..29 :
        /\ (disk.sb.s_feature_incompat \div (2 ^ k)) % 2 = 1
        /\ 2 ^ k \notin {2, 64, 512, 128}

FeatureError == super.err \in {"UnknownFeature", "UnsupportedFeature"}

Has64Bit == (disk.sb.s_feature_incompat \div 128) % 2 = 1

(***************************************************************************)
(* C12: superblock load returns a SuperBlock only if the magic is 0xEF53,  *)
(* the state is clean and free of errors, the creator is Linux, rev_level  *)
(* is 1 and inodes_per_group is positive; if one of these is violated the  *)
(* load returns an error and no SuperBlock.                                *)
(***************************************************************************)
C12_SuperblockGate ==
    SuperLoaded =>
        /\ super.result = "Ok" => GateHolds
        /\ ~GateHolds => super.result = "Err"

(***************************************************************************)
(* C13: the accepted incompat set is exactly {FILETYPE, EXTENTS, FLEX_BG,  *)
(* 64BIT}: load fails with an error for every feature_incompat with a bit  *)
(* outside the set, and rejects no subset of the set on feature grounds.   *)
(***************************************************************************)
C13_IncompatSet ==
    SuperLoaded =>
        /\ FeatureBitsOutside => (super.result = "Err" /\ FeatureError)
        /\ ~FeatureBitsOutside => ~FeatureError

C13_Witness ==
    /\ SuperLoaded
    /\ disk.sb.s_feature_incompat = 65538
    /\ GateHolds
    /\ super.result = "Err" /\ super.err = "UnsupportedFeature"

(***************************************************************************)
(* C14: a superblock with desc_size # 0 while the 64BIT flag is absent is  *)
(* rejected with an error value returned to the caller, not by aborting.   *)
(***************************************************************************)
C14_DescSizeError ==
    (SuperLoaded /\ ~Has64Bit /\ disk.sb.s_desc_size # 0) =>
        super.result = "Err"

(***************************************************************************)
(* C15: load_inode for N >= 1 whose index (N - 1) mod inodes_per_group is  *)
(* not below the used_inodes of group (N - 1) div inodes_per_group, or     *)
(* whose group is not in the group table, returns an InodeOutOfRange error *)
(* value and reads no inode bytes; it does not abort.                      *)
(***************************************************************************)
InodeOutside ==
    /\ inode_call.result # "none"
    /\ inode_call.inode >= 1
    /\ LET g == (inode_call.inode - 1) \div super.inodes_per_group
           i == (inode_call.inode - 1) % super.inodes_per_group
       IN \/ g >= Len(super.groups)
          \/ i >= super.groups[g + 1].inodes

C15_InodeOutOfRange ==
    InodeOutside =>
        /\ inode_call.result = "Err"
        /\ inode_call.err = "InodeOutOfRange"
        /\ ~inode_call.read

(***************************************************************************)
(* C16: for every group descriptor load accepts, used_inodes is 0 when the *)
(* INODES_UNUSED or BLOCKS_UNUSED flag is set and inodes_per_group minus   *)
(* free_inodes_count otherwise; a descriptor with free_inodes_count above  *)
(* inodes_per_group makes the load fail; so every loaded group has         *)
(* 0 <= used_inodes <= inodes_per_group.                                   *)
(***************************************************************************)
UsedInodes(desc) ==
    IF desc.bg_flags % 2 = 1 \/ (desc.bg_flags \div 2) % 2 = 1 THEN 0
    ELSE disk.sb.s_inodes_per_group - desc.free_inodes_count

FirstDescAsStored ==
    /\ super.descs[1].bg_flags = disk.bgs[1].bg_flags
    /\ super.descs[1].free_inodes_count % 65536
            = disk.bgs[1].bg_free_inodes_count_lo

BlockOfByte(i) == (last.before + i - 1) \div block_size

DecryptsOf(b) ==
    {k \in 1..Len(last.decrypts) :
        last.decrypts[k].page_offset = b * block_size}

FetchedPages ==
    IF last.err = "Io" THEN Len(last.reads) - 1 ELSE Len(last.reads)

C17_DecryptPages ==
    last.op = "read" =>
        /\ ~encryption_context => last.decrypts = <<>>
        /\ encryption_context =>
            /\ Len(last.decrypts) = FetchedPages
            /\ \A k \in 1..Len(last.decrypts) :
                  LET d == last.decrypts[k]
                      b == last.before \div block_size + k - 1
                      e == CoveringExtent(last.before \div block_size)
                  IN /\ Covers(e, b)
                     /\ d.size = block_size
                     /\ d.page_offset = b * block_size
                     /\ d.page_addr = (e.start + (b - e.part)) * block_size
                     /\ d.page_addr = last.reads[k]
                     /\ d.ino = ino
                     /\ DecryptsOf(b) = {k}
                     /\ \A i \in 1..d.copied : BlockOfByte(i) < b
            /\ \A i \in 1..Len(last.buf) :
                  last.buf[i].addr # -1 =>
                     \E k \in DecryptsOf(BlockOfByte(i)) :
                        /\ last.decrypts[k].copied < i
                        /\ last.buf[i].addr \div block_size
                               = last.decrypts[k].page_addr \div block_size
                        /\ last.buf[i].val
                               = (image[last.buf[i].addr]
                                    + last.decrypts[k].page_addr) % 256

C17_Witness ==
    /\ encryption_context
    /\ last.op = "read" /\ last.result = "Ok"
    /\ last.before % block_size # 0
    /\ (last.before + last.n) % block_size # 0
    /\ Len(last.decrypts) = 2
    /\ last.decrypts[2].copied > 0
    /\ last.buf[1].val # image[last.buf[1].addr]

(***************************************************************************)
(* C18: read and seek change nothing but the cursor: the extent list, the  *)
(* size, the block size, the inode number and the image are the same       *)
(* before and after every read or seek call, successful or failed.         *)
(***************************************************************************)
C18_Frame ==
    [][/\ extents' = extents
       /\ len' = len
       /\ block_size' = block_size
       /\ ino' = ino
       /\ image' = image]_vars

C18_Witness ==
    /\ last.op = "read" /\ last.result = "Err"
    /\ Len(last.buf) > 0
    /\ pos > 0 /\ pos < len
    /\ Len(extents) = 2

(***************************************************************************)
(* C19: read returns 0 and leaves pos where it is whenever buf is empty or *)
(* pos = len, for every extent list, also when the block holding pos is    *)
(* covered by an extent.                                                   *)
(***************************************************************************)
C19_EndOfFile ==
    (last.op = "read" /\ (last.arg = 0 \/ last.before = len)) =>
        /\ last.result = "Ok"
        /\ last.n = 0
        /\ pos = last.before

(***************************************************************************)
(* C20: when no extent covers block_index = pos div block_size, read       *)
(* writes exactly min(gap_blocks * block_size, buf.len(), len - pos) zero  *)
(* bytes and advances pos by that amount, where gap_blocks is the distance *)
(* to the first extent starting above block_index, or u32::MAX when there  *)
(* is none.                                                                *)
(***************************************************************************)
StartsAbove(b) == {extents[i].part : i \in 1..Len(extents)} \ (0..b)

GapBlocks(b) ==
    IF StartsAbove(b) = {} THEN U32_MAX
    ELSE (CHOOSE x \in StartsAbove(b) : \A y \in StartsAbove(b) : x <= y) - b

GapLength ==
    Min(Min(GapBlocks(last.before \div block_size) * block_size, last.arg),
        len - last.before)

C20_SparseLength ==
    (last.op = "read" /\ ~Covered(last.before \div block_size)) =>
        /\ last.result = "Ok"
        /\ last.n = GapLength
        /\ Len(last.buf) = GapLength
        /\ \A i \in 1..Len(last.buf) : last.buf[i] = ZeroByte
        /\ pos = last.before + GapLength

C20_Witness ==
    /\ last.op = "read" /\ ~Covered(last.before \div block_size)
    /\ StartsAbove(last.before \div block_size) # {}
    /\ last.n > 0
    /\ last.n < last.arg
    /\ last.n < len - last.before

(***************************************************************************)
(* C21: seek(End(n)) with 0 <= n <= len sets pos = len - n and returns it; *)
(* End(n) with n < 0 or n > len never returns successfully and never       *)
(* leaves the reader with a wrapped-around pos.                            *)
(***************************************************************************)
C21_SeekEnd ==
    last.op = "End" =>
        /\ (0 <= last.arg /\ last.arg <= len) =>
              /\ last.result = "Ok"
              /\ pos = len - last.arg
              /\ last.n = pos
        /\ (last.arg < 0 \/ last.arg > len) =>
              /\ last.result = "Panic"
              /\ pos <= len

(***************************************************************************)
(* Loader claims: the k-th block the loader asked for, and the node it     *)
(* found there.  Every load but a failing last one is followed by the      *)
(* reading of that block's entries, so block k is node k + 1.              *)
(***************************************************************************)
Nodes == loaded.acc.nodes

Loads == loaded.acc.loads

BlockFound(k) == Loads[k].hi = 0 /\ Loads[k].lo \in DOMAIN tree.disc

LoadedBlock(k) == tree.disc[Loads[k].lo]

HasMagic(node) == node.magic = <<10, 243>>

\* the number of levels block k lies below the root
LevelOfLoad(k) ==
    IF k < Len(Nodes) THEN Nodes[k + 1].level ELSE loaded.acc.level

(***************************************************************************)
(* C22: every extent node load_extent_tree interprets, the inline root and *)
(* every block loaded through an index entry, begins with the magic        *)
(* 0x0AF3; a node without it makes the whole load fail with a bad-magic    *)
(* error before any of its entries are read, and no list is returned.      *)
(***************************************************************************)
C22_HeaderMagic ==
    loaded # Pending =>
        /\ \A i \in 1..Len(Nodes) : HasMagic(Nodes[i].data)
        /\ ~HasMagic(tree.core) =>
              /\ loaded.err = "BadExtentMagic"
              /\ loaded.extents = <<>>
              /\ Nodes = <<>> /\ Loads = <<>>
        /\ \A k \in 1..Len(Loads) :
              (BlockFound(k) /\ ~HasMagic(LoadedBlock(k))) =>
                 /\ loaded.err = "BadExtentMagic"
                 /\ loaded.extents = <<>>
                 /\ k = Len(Loads)
                 /\ Len(Nodes) = k

C22_Witness ==
    /\ loaded # Pending
    /\ HasMagic(tree.core)
    /\ Len(Loads) = 2
    /\ BlockFound(2) /\ ~HasMagic(LoadedBlock(2))
    /\ loaded.err = "BadExtentMagic"

(***************************************************************************)
(* C23: a block reached through an index entry of a node of depth d > 0    *)
(* must have header depth d - 1, else the load fails with a depth          *)
(* mismatch; so in every successful load all leaf entries come from nodes  *)
(* of depth 0 lying exactly root-depth levels below the root.              *)
(***************************************************************************)
RECURSIVE LeafEntriesOf(_)
LeafEntriesOf(nodes) ==
    IF nodes = <<>> THEN <<>>
    ELSE (IF Head(nodes).data.depth = 0 /\ Head(nodes).level = tree.core.depth
          THEN [i \in 1..Head(nodes).data.entries |->
                    Head(nodes).data.slots[i]]
          ELSE <<>>) \o LeafEntriesOf(Tail(nodes))

C23_DepthDiscipline ==
    loaded # Pending =>
        /\ \A i \in 1..Len(Nodes) :
              Nodes[i].data.depth = tree.core.depth - Nodes[i].level
        /\ \A k \in 1..Len(Loads) :
              (/\ BlockFound(k) /\ HasMagic(LoadedBlock(k))
               /\ LoadedBlock(k).depth # tree.core.depth - LevelOfLoad(k)) =>
                 /\ loaded.err = "DepthMismatch"
                 /\ loaded.extents = <<>>
                 /\ k = Len(Loads)
        /\ loaded.err = "none" =>
              /\ Len(loaded.extents) = Len(LeafEntriesOf(Nodes))
              /\ \A i \in 1..Len(loaded.acc.extents) :
                    /\ loaded.acc.extents[i].part = LeafEntriesOf(Nodes)[i].w0
                    /\ loaded.acc.extents[i].len = LeafEntriesOf(Nodes)[i].h4

C23_Witness ==
    /\ loaded # Pending /\ loaded.err = "none"
    /\ tree.core.depth = 2
    /\ Len(Nodes) >= 4
    /\ Len(loaded.extents) >= 2

(***************************************************************************)
(* C24: the inline root is never checksummed: its trailing bytes are never *)
(* compared with a CRC, so no root content gives a checksum mismatch;      *)
(* every other node is compared when a checksum seed is present.           *)
(***************************************************************************)
ChecksumFailed == loaded.err = "ChecksumMismatch"

C24_RootNotChecksummed ==
    loaded # Pending =>
        /\ Len(loaded.acc.checked) <= Len(Loads)
        /\ Loads = <<>> => ~ChecksumFailed
        /\ tree.checksum_prefix = <<>> => loaded.acc.checked = <<>>
        /\ tree.checksum_prefix # <<>> =>
              /\ \A j \in 2..Len(Nodes) :
                    loaded.acc.checked[j - 1] = Nodes[j].data
              /\ Len(loaded.acc.checked) =
                    (IF Nodes = <<>> THEN 0 ELSE Len(Nodes) - 1)
                        + (IF ChecksumFailed THEN 1 ELSE 0)
              /\ ChecksumFailed =>
                    loaded.acc.checked[Len(loaded.acc.checked)]
                        = LoadedBlock(Len(Loads))

C24_Witness ==
    /\ loaded # Pending /\ loaded.err = "none"
    /\ tree.checksum_prefix # <<>> /\ tree.verify_checksums
    /\ tree.core.crc # ext4_style_crc32c_le(tree.checksum_prefix[1], tree.core)
    /\ Len(loaded.acc.checked) = 2
    /\ Len(loaded.extents) >= 1

(***************************************************************************)
(* C25: for every leaf entry the loader's physical start block equals      *)
(* start_lo + start_hi * 2^32, for every start_lo and start_hi, start_hi   *)
(* # 0 included.  2^32 is U32_MAX + 1 in the model's ranges.               *)
(***************************************************************************)
C25_PhysicalStart ==
    (loaded # Pending /\ loaded.err = "none") =>
        \A i \in 1..Len(loaded.acc.extents) :
            loaded.acc.extents[i].start =
                LeafEntriesOf(Nodes)[i].w8
                    + LeafEntriesOf(Nodes)[i].h6 * (U32_MAX + 1)

(***************************************************************************)
(* C28: load_extent_tree terminates on every image, also when an index     *)
(* entry points back to an ancestor block or to its own block: the nesting *)
(* of add_found_extents calls never exceeds the root's depth (at most 5),  *)
(* and a block reached again at another level is rejected by the depth     *)
(* check instead of being followed.                                        *)
(***************************************************************************)
C28_BoundedNesting ==
    loaded # Pending =>
        /\ Nodes # <<>> => tree.core.depth <= 5
        /\ loaded.acc.level <= tree.core.depth
        /\ \A i \in 1..Len(Nodes) :
              0 <= Nodes[i].level /\ Nodes[i].level <= tree.core.depth
        /\ \A j, k \in 1..Len(Nodes) - 1 :
              Loads[j] = Loads[k] => Nodes[j + 1].level = Nodes[k + 1].level
        /\ \A j, k \in 1..Len(Loads) :
              (j < k /\ Loads[j] = Loads[k] /\ BlockFound(k)
                 /\ LevelOfLoad(j) # LevelOfLoad(k)) =>
                 /\ k = Len(Loads)
                 /\ loaded.err = "DepthMismatch"

C28_Witness ==
    /\ loaded # Pending
    /\ Len(Loads) = 2 /\ Loads[1] = Loads[2]
    /\ LevelOfLoad(1) = 1 /\ LevelOfLoad(2) = 2
    /\ loaded.err = "DepthMismatch"

(***************************************************************************)
(* C26: group descriptors are consumed at a fixed stride equal to the      *)
(* descriptor size: the descriptor of group g is read at group_table_pos   *)
(* + g * D, where D = 32 when desc_size is 0 and D = desc_size (32 or 64)  *)
(* with 64BIT, and after parsing one descriptor the read position is D     *)
(* bytes past its start.  Positions are counted from group_table_pos.      *)
(***************************************************************************)
DescriptorSize ==
    IF disk.sb.s_desc_size = 0 THEN 32 ELSE disk.sb.s_desc_size

C26_DescriptorStride ==
    (SuperLoaded /\ super.result = "Ok") =>
        \A g \in 1..Len(super.descs) :
            /\ super.descs[g].at = (g - 1) * DescriptorSize
            /\ super.descs[g].next = super.descs[g].at + DescriptorSize

(***************************************************************************)
(* C27: read progress.  Every read with a non-empty buffer and pos < len   *)
(* that does not fail returns at least 1 byte, for any extent list,        *)
(* zero-length extents and the empty list included; the cursor moves       *)
(* forward by what was returned and stays within len, so a loop reading    *)
(* until 0 ends after at most len successful reads.                        *)
(***************************************************************************)
C27_ReadProgress ==
    (/\ last.op = "read" /\ last.result = "Ok"
     /\ last.arg > 0 /\ last.before < len) =>
        /\ last.n >= 1
        /\ Len(last.buf) = last.n
        /\ pos = last.before + last.n
        /\ pos <= len

C27_Witness ==
    /\ last.op = "read" /\ last.result = "Ok"
    /\ last.arg > 0 /\ last.before < len
    /\ \E i \in 1..Len(extents) :
          /\ extents[i].len = 0
          /\ extents[i].part = last.before \div block_size
    /\ last.reads # <<>>
    /\ last.n >= 1

(***************************************************************************)
(* C29: read_directory terminates for every directory content: each loop   *)
(* iteration advances the record cursor by rec_len and the consumed count  *)
(* strictly increases until it reaches the total length, also for a record *)
(* with rec_len = 0 or rec_len below 8 + name_len.                         *)
(***************************************************************************)
C29_DirectoryProgress ==
    [][(dir.pc = "seek" /\ dir'.pc # "seek") =>
          /\ dir'.cursor = (dir.name_at - 8) + dir.rec_len
          /\ dir'.pc = "record" => dir'.read > dir.read]_vars

(***************************************************************************)
(* C30: the assertion in load_all always holds: for every inode the number *)
(* of bytes read_to_end obtains from the reader of reader_for equals the   *)
(* inode's size, also for sizes that are no multiple of block_size, files  *)
(* with holes between extents and extents consumed over several reads.     *)
(***************************************************************************)
ReachedAssertion ==
    /\ old.pc = "done"
    /\ old.err \in {"none", "assert_eq!(size, read_to_end)"}

C30_LoadAllAssertion ==
    ReachedAssertion =>
        /\ old.ret = old.size
        /\ old.result = "Ok"

====
